---------------------------- MODULE Spec2Model ----------------------------
(***************************************************************************)
(* State-machine model of salcs.py: the projection-operator engine         *)
(* (_expand_irreducible, calc_salcs_projection) and the symmetry-function  *)
(* engine (_angles_to_vectors, _eval_sym_func, _normalize_salcs,           *)
(* calc_salcs_func).  Every call is one atomic action that records the     *)
(* arguments, the steps the handler performed (log) and its outcome.       *)
(*                                                                         *)
(* Numbers.  A Python number is [ty, v]: ty is "int" or "float".  A        *)
(* coordinate carries v in thousandths; a value rounded by round(.., 2)    *)
(* carries v in hundredths.  Floating point is modelled in fixed point;    *)
(* the positions enumerated keep every value away from a rounding tie.     *)
(*                                                                         *)
(* Algebra.  A SymPy expression is [cls, co]: co gives the integer         *)
(* coefficient of every ligand label, cls the class of the canonical       *)
(* object SymPy builds ("Zero", "Symbol", "Mul" or "Add").                 *)
(***************************************************************************)
EXTENDS Integers, Sequences, FiniteSets, TLC

VARIABLES pc, op, group, irred, projection, ligands, mode, argform,
          log, outcome, expanded, salcs_proj, salcs_raw, salcs_func

vars == <<pc, op, group, irred, projection, ligands, mode, argform,
          log, outcome, expanded, salcs_proj, salcs_raw, salcs_func>>

----------------------------------------------------------------------------
(* Bounds of the enumerated inputs. *)

MaxProj == 6

MaxLigands == 2

MaxChar == 2

(* round(value, 2) *)
Places == 2

----------------------------------------------------------------------------
(* Generic helpers. *)

SeqsUpTo(S, n) == UNION {[1..k -> S] : k \in 0..n}

RECURSIVE Pow10(_)
Pow10(n) == IF n = 0 THEN 1 ELSE 10 * Pow10(n - 1)

Abs(n) == IF n < 0 THEN -n ELSE n

(* n / d rounded to the nearest integer, ties to even (Python's round). *)
RoundHalfEven(n, d) ==
    LET nn == IF d < 0 THEN -n ELSE n
        dd == Abs(d)
        q  == nn \div dd
        r  == nn % dd
    IN  IF 2 * r < dd THEN q
        ELSE IF 2 * r > dd THEN q + 1
        ELSE IF q % 2 = 0 THEN q ELSE q + 1

----------------------------------------------------------------------------
(* Point-group names: a name is the sequence of its characters. *)

Letters == {"c", "d", "h", "v", "C", "D", "H", "V"}

NameChars == Letters \cup {"1", "2", "3", "4"}

lower_char(ch) ==
    CASE ch = "C" -> "c"
      [] ch = "D" -> "d"
      [] ch = "H" -> "h"
      [] ch = "V" -> "v"
      [] OTHER -> ch

(* str.lower() *)
lower(name) == [i \in 1..Len(name) |-> lower_char(name[i])]

Recasings(key) == {n \in [1..Len(key) -> NameChars] : lower(n) = key}

c1  == <<"c", "1">>
c3v == <<"c", "3", "v">>
d3h == <<"d", "3", "h">>
d4h == <<"d", "4", "h">>
c2h == <<"c", "2", "h">>

----------------------------------------------------------------------------
(* Character-table data (tables.py), keyed by lowercase group name. *)

(* Condensed irreducible representations: A1, A2, E of C3v and          *)
(* A1', A2', E', A1'', A2'', E'' of D3h.                                   *)
tables ==
    (c3v :> << <<1, 1, 1>>, <<1, 1, -1>>, <<2, -1, 0>> >>) @@
    (d3h :> << <<1, 1, 1, 1, 1, 1>>,
               <<1, 1, -1, 1, 1, -1>>,
               <<2, -1, 0, 2, -1, 0>>,
               <<1, 1, 1, -1, -1, -1>>,
               <<1, 1, -1, -1, -1, 1>>,
               <<2, -1, 0, -2, 1, 0>> >>)

(* Operations per class: E, 2C3, 3sigma_v and E, 2C3, 3C2, sigma_h, 2S3, *)
(* 3sigma_v.                                                               *)
table_coeff ==
    (c3v :> <<1, 2, 3>>) @@
    (d3h :> <<1, 2, 3, 1, 2, 3>>)

Const(n) == [const |-> TRUE, c |-> n, funcs |-> << >>]

Funcs(fs) == [const |-> FALSE, c |-> 0, funcs |-> fs]

(* Symmetry basis functions per irreducible representation. *)
symmetry_func_dict ==
    (c1  :> << Const(1) >>) @@
    (d3h :> << Funcs(<<"x**2+y**2", "z**2">>),
               Const(0),
               Funcs(<<"x", "y", "x**2-y**2", "x*y">>),
               Const(0),
               Funcs(<<"z">>),
               Funcs(<<"x*z", "y*z">>) >>) @@
    (d4h :> << Funcs(<<"x**2+y**2", "z**2">>),
               Const(0),
               Funcs(<<"x**2-y**2">>),
               Funcs(<<"x*y">>),
               Funcs(<<"x*z", "y*z">>),
               Const(0),
               Funcs(<<"z">>),
               Const(0),
               Const(0),
               Funcs(<<"x", "y">>) >>)

----------------------------------------------------------------------------
(* SymPy expressions over the ligand labels. *)

Labels == {"a", "b", "c"}

ZeroCo == [l \in Labels |-> 0]

NonZero(co) == {l \in Labels : co[l] # 0}

(* The class of the canonical SymPy object with coefficients co. *)
sym_class(co) ==
    IF NonZero(co) = {} THEN "Zero"
    ELSE IF Cardinality(NonZero(co)) > 1 THEN "Add"
    ELSE IF \E l \in Labels : co[l] = 1 THEN "Symbol"
    ELSE "Mul"

Sym(l) == [cls |-> "Symbol", co |-> [k \in Labels |-> IF k = l THEN 1 ELSE 0]]

Neg(l) == [cls |-> "Mul", co |-> [k \in Labels |-> IF k = l THEN -1 ELSE 0]]

SymZero == [cls |-> "Zero", co |-> ZeroCo]

(* A product that forgets the character. *)
sym_mul_nochar(n, e) == e

(* character * expression *)
sym_mul(n, e) ==
    CHOOSE r \in {[cls |-> sym_class(co), co |-> co] :
                    co \in {[l \in Labels |-> n * e.co[l]]}} : TRUE

(* An addition that keeps the unevaluated sum when the terms cancel. *)
sym_add_unevaluated(e1, e2) ==
    LET co == [l \in Labels |-> e1.co[l] + e2.co[l]]
    IN  [cls |-> IF e1.cls = "Zero" THEN e2.cls
                 ELSE IF e2.cls = "Zero" THEN e1.cls ELSE "Add",
         co |-> co]

(* expression + expression, as np.sum accumulates the products *)
sym_add(e1, e2) ==
    LET co == [l \in Labels |-> e1.co[l] + e2.co[l]]
    IN  [cls |-> sym_class(co), co |-> co]

RECURSIVE np_sum(_)
np_sum(product) ==
    IF product = << >> THEN SymZero
    ELSE IF Len(product) = 1 THEN product[1]
    ELSE sym_add(np_sum(SubSeq(product, 1, Len(product) - 1)),
                 product[Len(product)])

----------------------------------------------------------------------------
(* _expand_irreducible *)

Repeat(x, n) == [i \in 1..n |-> x]

(* extend([irred[i]] * 1): every character once, whatever the class size. *)
expand_norepeat(irr, name) == irr

RECURSIVE expand_loop(_, _, _)
expand_loop(irr, coeff, i) ==
    IF i > Len(irr) THEN << >>
    ELSE Repeat(irr[i], coeff[i]) \o expand_loop(irr, coeff, i + 1)

(* The group key _expand_irreducible looks up. *)
expand_key(name) == lower(name)

(* The loop of lines 46-50; the caller has found expand_key(name) in the *)
(* table and irr is no longer than the multiplicity row.                   *)
expand_irreducible(irr, name) ==
    expand_loop(irr, table_coeff[expand_key(name)], 1)

----------------------------------------------------------------------------
(* calc_salcs_projection *)

(* Element-wise product that stops at the shorter operand, like zip. *)
np_multiply_zip(chars, proj) ==
    LET n == IF Len(chars) < Len(proj) THEN Len(chars) ELSE Len(proj)
    IN  [err |-> "none", val |-> [i \in 1..n |-> sym_mul(chars[i], proj[i])]]

(* list * ndarray: NumPy broadcasts two one-dimensional operands when    *)
(* their lengths agree or one of them is 1, and raises ValueError          *)
(* otherwise.                                                              *)
np_multiply(chars, proj) ==
    IF Len(chars) = Len(proj)
    THEN [err |-> "none",
          val |-> [i \in 1..Len(chars) |-> sym_mul(chars[i], proj[i])]]
    ELSE IF Len(proj) = 1
    THEN [err |-> "none",
          val |-> [i \in 1..Len(chars) |-> sym_mul(chars[i], proj[1])]]
    ELSE IF Len(chars) = 1
    THEN [err |-> "none",
          val |-> [i \in 1..Len(proj) |-> sym_mul(chars[1], proj[i])]]
    ELSE [err |-> "ValueError", val |-> << >>]

(* The loop of lines 85-88: one sum per irreducible representation, in     *)
(* table order; the first product that fails ends the call.                *)
projection_loop(irreds, key, proj) ==
    LET products == [k \in 1..Len(irreds) |->
                        np_multiply(expand_irreducible(irreds[k], key), proj)]
    IN  IF \E k \in 1..Len(irreds) : products[k].err # "none"
        THEN [err |-> "ValueError", val |-> << >>]
        ELSE [err |-> "none",
              val |-> [k \in 1..Len(irreds) |-> np_sum(products[k].val)]]

(* The group key the projection engine looks up. *)
projection_key(name) == lower(name)

calc_salcs_projection_result(proj, name) ==
    LET key == projection_key(name)
    IN  IF key \notin DOMAIN tables THEN [err |-> "KeyError", val |-> << >>]
        ELSE projection_loop(tables[key], key, proj)

----------------------------------------------------------------------------
(* Numbers of the symmetry-function engine. *)

Hundred == Pow10(Places)

Thousand == 10 * Hundred

Int_(n) == [ty |-> "int", v |-> n * Thousand]

Flt(thousandths) == [ty |-> "float", v |-> thousandths]

(* math.cos(math.radians(deg)) and math.sin(math.radians(deg)), in          *)
(* thousandths, for the angles the ligand positions use.                   *)
cos_deg(deg) ==
    CASE deg = 0 -> 1000
      [] deg = 60 -> 500
      [] deg = 90 -> 0
      [] deg = -90 -> 0
      [] deg = 120 -> -500
      [] deg = 180 -> -1000
      [] deg = 240 -> -500

sin_deg(deg) ==
    CASE deg = 0 -> 0
      [] deg = 60 -> 866
      [] deg = 90 -> 1000
      [] deg = -90 -> -1000
      [] deg = 120 -> 866
      [] deg = 180 -> 0
      [] deg = 240 -> -866

(* _angles_to_vectors: orbital[0] is the azimuth, orbital[1] the elevation *)
angles_to_vectors(ligand_angles) ==
    [i \in 1..Len(ligand_angles) |->
        LET az == ligand_angles[i][1].v
            el == ligand_angles[i][2].v
        IN  << Flt(RoundHalfEven(cos_deg(az) * cos_deg(el), Thousand)),
               Flt(RoundHalfEven(sin_deg(az) * cos_deg(el), Thousand)),
               Flt(sin_deg(el)) >>]

(* eval(func, {x, y, z}): the value in millionths and its Python type. *)
eval_func(func, unit_vector) ==
    LET x == unit_vector[1]
        y == unit_vector[2]
        z == unit_vector[3]
        ty2(p, q) == IF p.ty = "int" /\ q.ty = "int" THEN "int" ELSE "float"
    IN  CASE func = "x" -> [ty |-> x.ty, v |-> x.v * Thousand]
          [] func = "y" -> [ty |-> y.ty, v |-> y.v * Thousand]
          [] func = "z" -> [ty |-> z.ty, v |-> z.v * Thousand]
          [] func = "z**2" -> [ty |-> z.ty, v |-> z.v * z.v]
          [] func = "x**2+y**2" -> [ty |-> ty2(x, y), v |-> x.v * x.v + y.v * y.v]
          [] func = "x**2-y**2" -> [ty |-> ty2(x, y), v |-> x.v * x.v - y.v * y.v]
          [] func = "x*y" -> [ty |-> ty2(x, y), v |-> x.v * y.v]
          [] func = "x*z" -> [ty |-> ty2(x, z), v |-> x.v * z.v]
          [] func = "y*z" -> [ty |-> ty2(y, z), v |-> y.v * z.v]

(* round(ligand_contrib, 2): a value in hundredths; an int stays an int. *)
round2(value) ==
    [ty |-> value.ty, v |-> RoundHalfEven(value.v, Thousand * 10)]

ligand_contribs(coords, func) ==
    [i \in 1..Len(coords) |-> round2(eval_func(func, coords[i]))]

(* A survival test that keeps every formula. *)
np_any_always(contribs) == TRUE

(* np.any(ligand_contribs) *)
np_any(contribs) == \E i \in 1..Len(contribs) : contribs[i].v # 0

Slot0 == [kind |-> "const", c |-> 0, rows |-> << >>]

RECURSIVE surviving(_, _, _)
surviving(coords, funcs, j) ==
    IF j > Len(funcs) THEN << >>
    ELSE LET contribs == ligand_contribs(coords, funcs[j])
         IN  (IF np_any(contribs) THEN <<contribs>> ELSE << >>)
             \o surviving(coords, funcs, j + 1)

(* _eval_sym_func *)
eval_sym_func(coords, funcs) ==
    LET salcs == surviving(coords, funcs, 1)
    IN  IF salcs = << >> THEN Slot0
        ELSE IF Len(salcs) = 1
        THEN [kind |-> "flat", c |-> 0, rows |-> salcs]
        ELSE [kind |-> "nested", c |-> 0, rows |-> salcs]

----------------------------------------------------------------------------
(* _normalize_salcs *)

RECURSIVE SeqMax(_)
SeqMax(row) ==
    IF Len(row) = 1 THEN row[1].v
    ELSE LET m == SeqMax(Tail(row))
         IN  IF row[1].v >= m THEN row[1].v ELSE m

(* max(salcs): the divisor of line 196 *)
divisor(row) == SeqMax(row)

(* One flat list of numbers: an int passes through, any other value is    *)
(* divided by the maximum of the list and rounded to 2 places.             *)
normalize_row(row) ==
    IF \E i \in 1..Len(row) : row[i].ty # "int" /\ divisor(row) = 0
    THEN [err |-> "ZeroDivisionError", val |-> << >>]
    ELSE [err |-> "none",
          val |-> [i \in 1..Len(row) |->
                    IF row[i].ty = "int" THEN row[i]
                    ELSE [ty |-> "float",
                          v |-> RoundHalfEven(row[i].v * Hundred, divisor(row))]]]

normalize_slot(slot) ==
    IF slot.kind = "const" THEN [err |-> "none", val |-> slot]
    ELSE LET rs == [j \in 1..Len(slot.rows) |-> normalize_row(slot.rows[j])]
         IN  IF \E j \in 1..Len(rs) : rs[j].err # "none"
             THEN [err |-> "ZeroDivisionError", val |-> slot]
             ELSE [err |-> "none",
                   val |-> [slot EXCEPT !.rows = [j \in 1..Len(rs) |-> rs[j].val]]]

normalize_salcs(salcs) ==
    LET ns == [k \in 1..Len(salcs) |-> normalize_slot(salcs[k])]
    IN  IF \E k \in 1..Len(ns) : ns[k].err # "none"
        THEN [err |-> "ZeroDivisionError", val |-> << >>]
        ELSE [err |-> "none", val |-> [k \in 1..Len(ns) |-> ns[k].val]]

----------------------------------------------------------------------------
(* calc_salcs_func *)

ValidModes == {"angle", "vector"}

(* How the caller passes the arguments of                                  *)
(*     def calc_salcs_func(ligands, group, mode='vector')                  *)
(*   kw:      (ligands, group, mode=m)        pos: (ligands, group, m)     *)
(*   default: (ligands, group)                                             *)
(*   symbols_kw:      (ligands, symbols, group, mode=m)                    *)
(*   symbols_pos:     (ligands, symbols, group, m)                         *)
(*   symbols_default: (ligands, symbols, group)                            *)
(* Python binds positional arguments to the parameters in order; a fourth  *)
(* positional argument, or mode given by keyword when a third positional   *)
(* argument already fills it, is a TypeError raised before the body runs.  *)
bind_args(form, name, m) ==
    CASE form = "kw" ->
            [err |-> "none", group_is_name |-> TRUE, mode |-> m]
      [] form = "pos" ->
            [err |-> "none", group_is_name |-> TRUE, mode |-> m]
      [] form = "default" ->
            [err |-> "none", group_is_name |-> TRUE, mode |-> "vector"]
      [] form = "symbols_kw" ->
            [err |-> "TypeError", group_is_name |-> FALSE, mode |-> m]
      [] form = "symbols_pos" ->
            [err |-> "TypeError", group_is_name |-> FALSE, mode |-> m]
      [] form = "symbols_default" ->
            [err |-> "none", group_is_name |-> FALSE, mode |-> "<group name>"]

(* The group key the symmetry-function engine looks up: line 253 uses the *)
(* name as given.                                                          *)
func_key(name) == name

RECURSIVE func_loop(_, _, _)
func_loop(entries, ligand_vectors, k) ==
    IF k > Len(entries) THEN << >>
    ELSE << IF entries[k].const
            THEN [kind |-> "const", c |-> entries[k].c, rows |-> << >>]
            ELSE eval_sym_func(ligand_vectors, entries[k].funcs) >>
         \o func_loop(entries, ligand_vectors, k + 1)

Failed(e, steps) == [err |-> e, log |-> steps, raw |-> << >>, val |-> << >>]

(* The body after a valid mode: lines 245-248 and 252-259. *)
func_body(ligs, name, m) ==
    LET ligand_vectors == IF m = "angle" THEN angles_to_vectors(ligs) ELSE ligs
        s1  == IF m = "angle" THEN <<"angles_to_vectors">> ELSE << >>
        key == func_key(name)
    IN  IF key \notin DOMAIN symmetry_func_dict
        THEN Failed("KeyError", s1 \o <<"lookup">>)
        ELSE LET raw == func_loop(symmetry_func_dict[key], ligand_vectors, 1)
                 n   == normalize_salcs(raw)
                 s2  == s1 \o <<"lookup", "eval", "normalize">>
             IN  IF n.err # "none"
                 THEN [err |-> n.err, log |-> s2, raw |-> raw, val |-> << >>]
                 ELSE [err |-> "none", log |-> s2, raw |-> raw, val |-> n.val]

(* The body with the mode tested only where it is used. *)
func_checked_late(ligs, name, m) ==
    IF m = "angle" THEN func_body(ligs, name, m)
    ELSE IF func_key(name) \notin DOMAIN symmetry_func_dict
    THEN Failed("KeyError", <<"lookup">>)
    ELSE IF m \notin ValidModes THEN Failed("Exception", <<"lookup">>)
    ELSE func_body(ligs, name, m)

(* Lines 245-250 first, then the rest of the body. *)
func_checked(ligs, name, m) ==
    IF m \notin ValidModes THEN Failed("Exception", << >>)
    ELSE func_body(ligs, name, m)

calc_salcs_func_result(ligs, form, name, m) ==
    LET b == bind_args(form, name, m)
    IN  IF b.err # "none" THEN Failed(b.err, << >>)
        \* mode then holds the group string, which is no valid mode
        ELSE IF ~b.group_is_name THEN Failed("Exception", << >>)
        ELSE func_checked(ligs, name, b.mode)

----------------------------------------------------------------------------
(* The calls the model makes. *)

Chars == -1..MaxChar

ExpandNames == Recasings(c3v) \cup Recasings(d3h) \cup {c2h}

ProjNames == Recasings(c3v) \cup Recasings(d3h) \cup {c2h}

FuncNames == Recasings(d3h) \cup Recasings(d4h) \cup Recasings(c1) \cup {c2h}

Entries == {Sym("a"), Sym("b"), Neg("a")}

(* [a, b, c, a, b, c]: the ammonia hydrogens of test_calc_salcs_projection *)
Scenario1 == <<Sym("a"), Sym("b"), Sym("c"), Sym("a"), Sym("b"), Sym("c")>>

(* [e1, e2, e3, -e1, -e2, -e3, -e1, -e2, -e3, e1, e2, e3] with a, b, c *)
Scenario2 ==
    <<Sym("a"), Sym("b"), Sym("c"), Neg("a"), Neg("b"), Neg("c"),
      Neg("a"), Neg("b"), Neg("c"), Sym("a"), Sym("b"), Sym("c")>>

Signed(sg, e) ==
    IF sg = 1 THEN e
    ELSE IF e.cls = "Symbol" THEN [cls |-> "Mul", co |-> [l \in Labels |-> -e.co[l]]]
    ELSE [cls |-> "Symbol", co |-> [l \in Labels |-> -e.co[l]]]

(* Twelve operation results: a block of three repeated with four signs. *)
BlockProjections ==
    {[i \in 1..12 |-> Signed(sg[((i - 1) \div 3) + 1], blk[((i - 1) % 3) + 1])] :
        sg \in [1..4 -> {1, -1}], blk \in [1..3 -> Entries]}

Projections ==
    SeqsUpTo(Entries, MaxProj) \cup BlockProjections \cup {Scenario1, Scenario2}

(* An angle of d whole degrees, as the caller writes it. *)
Deg(d) == [ty |-> "int", v |-> d]

AnglePositions ==
    { <<Deg(0), Deg(0)>>, <<Deg(90), Deg(0)>>, <<Deg(120), Deg(0)>>,
      <<Deg(180), Deg(0)>>, <<Deg(60), Deg(0)>>,
      <<Deg(0), Deg(90)>>, <<Deg(0), Deg(-90)>> }

VectorPositions ==
    { <<Int_(1), Int_(0), Int_(0)>>, <<Int_(-1), Int_(0), Int_(0)>>,
      <<Int_(0), Int_(1), Int_(0)>>, <<Int_(0), Int_(0), Int_(1)>>,
      <<Flt(-1000), Flt(0), Flt(0)>>, <<Flt(0), Flt(-1000), Flt(0)>>,
      <<Flt(-500), Flt(866), Flt(0)>>, <<Flt(707), Flt(0), Flt(707)>> }

(* [[1,0,0],[0,1,0],[-1,0,0],[0,-1,0]]: square planar *)
Scenario3 ==
    << <<Int_(1), Int_(0), Int_(0)>>, <<Int_(0), Int_(1), Int_(0)>>,
       <<Int_(-1), Int_(0), Int_(0)>>, <<Int_(0), Int_(-1), Int_(0)>> >>

(* [[0,0],[120,0],[240,0],[0,90],[0,-90]]: trigonal bipyramidal *)
Scenario4 ==
    << <<Deg(0), Deg(0)>>, <<Deg(120), Deg(0)>>, <<Deg(240), Deg(0)>>,
       <<Deg(0), Deg(90)>>, <<Deg(0), Deg(-90)>> >>

AngleLists == SeqsUpTo(AnglePositions, MaxLigands) \cup {Scenario4}

VectorLists == SeqsUpTo(VectorPositions, MaxLigands) \cup {Scenario3}

AngleCalls == {<<"kw", "angle">>, <<"pos", "angle">>, <<"kw", "polar">>}

VectorCalls ==
    {<<"kw", "vector">>, <<"default", "">>, <<"pos", "polar">>,
     <<"symbols_kw", "vector">>, <<"symbols_pos", "vector">>,
     <<"symbols_default", "">>}

----------------------------------------------------------------------------
(* The state machine. *)

Init ==
    /\ pc = "idle"
    /\ op = "none"
    /\ group = << >>
    /\ irred = << >>
    /\ projection = << >>
    /\ ligands = << >>
    /\ mode = ""
    /\ argform = ""
    /\ log = << >>
    /\ outcome = "none"
    /\ expanded = << >>
    /\ salcs_proj = << >>
    /\ salcs_raw = << >>
    /\ salcs_func = << >>

(* _expand_irreducible(irred, group), irred with one character per class *)
Call_expand_irreducible ==
    /\ pc = "idle"
    /\ \E name \in ExpandNames :
        \E irr \in [1..3 -> Chars] \cup [1..6 -> Chars] :
           /\ expand_key(name) \in DOMAIN table_coeff
                 => Len(irr) = Len(table_coeff[expand_key(name)])
           /\ expand_key(name) \notin DOMAIN table_coeff => Len(irr) = 3
           /\ group' = name
           /\ irred' = irr
           /\ IF expand_key(name) \notin DOMAIN table_coeff
              THEN outcome' = "KeyError" /\ expanded' = << >>
              ELSE outcome' = "ok" /\ expanded' = expand_irreducible(irr, name)
    /\ pc' = "done"
    /\ op' = "expand"
    /\ log' = <<"lookup">>
    /\ UNCHANGED <<projection, ligands, mode, argform, salcs_proj,
                   salcs_raw, salcs_func>>

(* calc_salcs_projection(projection, group) *)
Call_calc_salcs_projection ==
    /\ pc = "idle"
    /\ \E name \in ProjNames : \E proj \in Projections :
        \E r \in {calc_salcs_projection_result(proj, name)} :
            /\ group' = name
            /\ projection' = proj
            /\ outcome' = IF r.err = "none" THEN "ok" ELSE r.err
            /\ salcs_proj' = r.val
    /\ pc' = "done"
    /\ op' = "projection"
    /\ log' = <<"lookup">>
    /\ UNCHANGED <<irred, ligands, mode, argform, expanded, salcs_raw,
                   salcs_func>>

(* calc_salcs_func(ligands, group, mode) in each of the call forms *)
Call_calc_salcs_func ==
    /\ pc = "idle"
    /\ \E shape \in {"angle", "vector"} : \E name \in FuncNames :
        \E ligs \in IF shape = "angle" THEN AngleLists ELSE VectorLists :
        \E fm \in IF shape = "angle" THEN AngleCalls ELSE VectorCalls :
            \E r \in {calc_salcs_func_result(ligs, fm[1], name, fm[2])} :
                /\ group' = name
                /\ ligands' = ligs
                /\ argform' = fm[1]
                /\ mode' = fm[2]
                /\ outcome' = IF r.err = "none" THEN "ok" ELSE r.err
                /\ log' = r.log
                /\ salcs_raw' = r.raw
                /\ salcs_func' = r.val
    /\ pc' = "done"
    /\ op' = "func"
    /\ UNCHANGED <<irred, projection, expanded, salcs_proj>>

(* The caller takes the result; nothing of a call outlives it. *)
Return ==
    /\ pc = "done"
    /\ pc' = "idle"
    /\ op' = "none"
    /\ group' = << >>
    /\ irred' = << >>
    /\ projection' = << >>
    /\ ligands' = << >>
    /\ mode' = ""
    /\ argform' = ""
    /\ log' = << >>
    /\ outcome' = "none"
    /\ expanded' = << >>
    /\ salcs_proj' = << >>
    /\ salcs_raw' = << >>
    /\ salcs_func' = << >>

Next ==
    \/ Call_expand_irreducible
    \/ Call_calc_salcs_projection
    \/ Call_calc_salcs_func
    \/ Return

Spec == Init /\ [][Next]_vars

----------------------------------------------------------------------------
(* What the claims speak of, stated apart from the code's own loops. *)

RECURSIVE SumTo(_, _)
SumTo(mult, n) == IF n = 0 THEN 0 ELSE mult[n] + SumTo(mult, n - 1)

(* The total operation count of the group with key key. *)
OperationCount(key) == SumTo(table_coeff[key], Len(table_coeff[key]))

(* The class of the p-th operation. *)
ClassAt(mult, p) ==
    CHOOSE i \in 1..Len(mult) : SumTo(mult, i - 1) < p /\ p <= SumTo(mult, i)

(* The coefficient of label l in sum_p character_k(p) * proj[p]. *)
RECURSIVE WeightedCoeff(_, _, _, _, _)
WeightedCoeff(key, k, l, proj, n) ==
    IF n = 0 THEN 0
    ELSE tables[key][k][ClassAt(table_coeff[key], n)] * proj[n].co[l]
         + WeightedCoeff(key, k, l, proj, n - 1)

RECURSIVE CharSum(_, _, _)
CharSum(key, k, n) ==
    IF n = 0 THEN 0
    ELSE tables[key][k][ClassAt(table_coeff[key], n)] + CharSum(key, k, n - 1)

Key == lower(group)

MatchedProjection ==
    /\ op = "projection"
    /\ Key \in DOMAIN tables
    /\ Len(projection) = OperationCount(Key)

MismatchedProjection ==
    /\ op = "projection"
    /\ Key \in DOMAIN tables
    /\ Len(projection) # OperationCount(Key)

Co(x, y, z) == [a |-> x, b |-> y, c |-> z]

(* C1: for a group of the table and operation results of the group's      *)
(* operation count, calc_salcs_projection returns one entry per            *)
(* irreducible representation, in table order, entry k being the sum over  *)
(* the operations of expanded character times operation result; and        *)
(* [a, b, c, a, b, c] with c3v yields [2a+2b+2c, 0, 2a-b-c].               *)
C1_ProjectionIsWeightedSum ==
    MatchedProjection =>
        /\ outcome = "ok"
        /\ Len(salcs_proj) = Len(tables[Key])
        /\ \A k \in 1..Len(tables[Key]) : \A l \in Labels :
              salcs_proj[k].co[l] =
                  WeightedCoeff(Key, k, l, projection, Len(projection))
        /\ (Key = c3v /\ projection = Scenario1) =>
              /\ salcs_proj[1].co = Co(2, 2, 2)
              /\ salcs_proj[2].co = Co(0, 0, 0)
              /\ salcs_proj[3].co = Co(2, -1, -1)

C1_Witness ==
    /\ MatchedProjection
    /\ group = c3v
    /\ projection = Scenario1
    /\ outcome = "ok"
    /\ salcs_proj[3].co = Co(2, -1, -1)

(* C2: for a group of the table and a condensed representation with one   *)
(* character per class, _expand_irreducible returns a list whose length is *)
(* the sum of the class multiplicities and which is, in class order, each  *)
(* character repeated as often as its class has operations.                *)
C2_ExpandIsClassOrderConcatenation ==
    (op = "expand" /\ Key \in DOMAIN table_coeff) =>
        LET mult == table_coeff[Key]
        IN  /\ outcome = "ok"
            /\ Len(expanded) = OperationCount(Key)
            /\ \A i \in 1..Len(mult) : \A j \in 1..mult[i] :
                  expanded[SumTo(mult, i - 1) + j] = irred[i]

C2_Witness ==
    /\ op = "expand"
    /\ group = <<"C", "3", "v">>
    /\ irred = <<2, -1, 0>>
    /\ expanded = <<2, -1, -1, 0, 0, 0>>

----------------------------------------------------------------------------
(* The symmetry-function engine. *)

(* A call whose arguments bind, with a valid mode and a key of the table. *)
ProperFuncCall ==
    /\ op = "func"
    /\ argform \in {"kw", "pos", "default"}
    /\ bind_args(argform, group, mode).mode \in ValidModes

Vectors ==
    IF bind_args(argform, group, mode).mode = "angle"
    THEN angles_to_vectors(ligands) ELSE ligands

Rows(slots) ==
    UNION {{slots[k].rows[j] : j \in 1..Len(slots[k].rows)} : k \in 1..Len(slots)}

Values(slots) ==
    [k \in 1..Len(slots) |->
        [kind |-> slots[k].kind, c |-> slots[k].c,
         rows |-> [j \in 1..Len(slots[k].rows) |->
                     [i \in 1..Len(slots[k].rows[j]) |-> slots[k].rows[j][i].v]]]]

(* C3: every coefficient sequence calc_salcs_func returns has all its      *)
(* coefficients in [-1, 1] and its largest-magnitude entry equal to +1 or  *)
(* -1, also when that entry is negative and when the coefficients are      *)
(* integers.                                                               *)
C3_CoefficientsNormalized ==
    (op = "func" /\ outcome = "ok") =>
        \A row \in Rows(salcs_func) :
            /\ \A i \in 1..Len(row) : Abs(row[i].v) <= Hundred
            /\ \E i \in 1..Len(row) : Abs(row[i].v) = Hundred

(* C4: for every re-casing of a group name both engines return what they  *)
(* return for the lowercase name, and no lookup failure the lowercase name *)
(* would not produce.                                                      *)
C4_GroupNameCaseInsensitive ==
    /\ op = "projection" =>
          LET r == calc_salcs_projection_result(projection, Key)
          IN  /\ outcome = (IF r.err = "none" THEN "ok" ELSE r.err)
              /\ salcs_proj = r.val
    /\ op = "func" =>
          LET r == calc_salcs_func_result(ligands, argform, Key, mode)
          IN  /\ outcome = (IF r.err = "none" THEN "ok" ELSE r.err)
              /\ salcs_func = r.val

(* C5: calc_salcs_func called with a mode other than "angle" or "vector"  *)
(* fails with the explicit Exception before anything else happens: no      *)
(* angle conversion, no table lookup (an unknown group still yields the    *)
(* mode error), no evaluation.                                             *)
C5_InvalidModeFailsFirst ==
    (op = "func" /\ argform \in {"kw", "pos"} /\ mode \notin ValidModes) =>
        /\ outcome = "Exception"
        /\ log = << >>
        /\ salcs_raw = << >>
        /\ salcs_func = << >>

C5_Witness ==
    /\ op = "func"
    /\ argform = "kw"
    /\ mode = "polar"
    /\ group = c2h
    /\ Len(ligands) = MaxLigands
    /\ Len(ligands[1]) = 2
    /\ outcome = "Exception"
    /\ log = << >>

(* C6 as claimed: operation results of any other length than the group's  *)
(* operation count raise no error and a result list is returned.           *)
C6_LengthMismatchIsSilent ==
    MismatchedProjection => outcome = "ok"

(* C6 as the code has it: calc_salcs_projection makes no length check of   *)
(* its own, and the element-wise product decides.  Operation results of    *)
(* length 1 (or a group of one operation) are broadcast and a wrong result *)
(* list, one entry per irreducible representation, is returned silently;   *)
(* any other mismatched length raises ValueError.                          *)
C6_LengthMismatchBroadcastOrValueError ==
    MismatchedProjection =>
        IF Len(projection) = 1
        THEN /\ outcome = "ok"
             /\ Len(salcs_proj) = Len(tables[Key])
             /\ \A k \in 1..Len(tables[Key]) : \A l \in Labels :
                   salcs_proj[k].co[l] =
                       CharSum(Key, k, OperationCount(Key)) * projection[1].co[l]
        ELSE IF OperationCount(Key) = 1
        THEN outcome = "ok" /\ Len(salcs_proj) = Len(tables[Key])
        ELSE outcome = "ValueError" /\ salcs_proj = << >>

C6_Witness ==
    /\ MismatchedProjection
    /\ group = c3v
    /\ projection = <<Sym("a")>>
    /\ outcome = "ok"
    /\ salcs_proj[1].co = Co(6, 0, 0)
    /\ salcs_proj[3].co = Co(0, 0, 0)

Flat(vs) == [kind |-> "flat", c |-> 0, rows |-> <<vs>>]

NoSalc == [kind |-> "const", c |-> 0, rows |-> << >>]

(* [a+b+c+d, 0, a-b+c-d, 0, 0, 0, 0, 0, 0, [a-c, b-d]] in hundredths *)
Scenario3Expected ==
    << Flat(<<100, 100, 100, 100>>), NoSalc, Flat(<<100, -100, 100, -100>>),
       NoSalc, NoSalc, NoSalc, NoSalc, NoSalc, NoSalc,
       [kind |-> "nested", c |-> 0,
        rows |-> << <<100, 0, -100, 0>>, <<0, 100, 0, -100>> >>] >>

(* C8: calc_salcs_func takes the ligand positions together with a list of  *)
(* per-ligand symbols: the square-planar vectors with symbols [a, b, c, d], *)
(* group "d4h" and mode="vector" yield                                     *)
(* [a+b+c+d, 0, a-b+c-d, 0, 0, 0, 0, 0, 0, [a-c, b-d]].                    *)
C8_SymbolsScenario ==
    (/\ op = "func"
     /\ argform = "symbols_kw"
     /\ ligands = Scenario3
     /\ group = d4h
     /\ mode = "vector") =>
        /\ outcome = "ok"
        /\ Values(salcs_func) = Scenario3Expected

TenThousand == Hundred * Hundred

(* The formulas of an entry with a value that rounds to non-zero. *)
Survivors(entry, vecs) ==
    {j \in 1..Len(entry.funcs) :
        \E i \in 1..Len(vecs) :
            2 * Abs(eval_func(entry.funcs[j], vecs[i]).v) > TenThousand}

(* row holds, per ligand, the value of func rounded to 2 places. *)
IsRoundedRow(row, func, vecs) ==
    /\ Len(row) = Len(vecs)
    /\ \A i \in 1..Len(vecs) :
          /\ row[i].ty = eval_func(func, vecs[i]).ty
          /\ 2 * Abs(eval_func(func, vecs[i]).v - row[i].v * TenThousand)
                <= TenThousand

SlotIsShaped(slot, entry, vecs) ==
    LET S == Survivors(entry, vecs)
    IN  IF entry.const
        THEN slot = [kind |-> "const", c |-> entry.c, rows |-> << >>]
        ELSE IF S = {} THEN slot = NoSalc
        ELSE /\ slot.kind = (IF Cardinality(S) = 1 THEN "flat" ELSE "nested")
             /\ Len(slot.rows) = Cardinality(S)
             /\ \A j \in S :
                   IsRoundedRow(slot.rows[Cardinality({m \in S : m <= j})],
                                entry.funcs[j], vecs)

SameShape(s1, s2) ==
    /\ s1.kind = s2.kind
    /\ s1.c = s2.c
    /\ Len(s1.rows) = Len(s2.rows)
    /\ \A j \in 1..Len(s1.rows) : Len(s1.rows[j]) = Len(s2.rows[j])

(* C9: calc_salcs_func builds one slot per basis-function entry, in table  *)
(* order: the constants 0 and 1 pass through; a formula survives iff one   *)
(* of its per-ligand values rounded to 2 places is non-zero; the slot is   *)
(* the constant 0 with no survivor, the survivor's per-ligand sequence     *)
(* with one, and the survivors' sequences in formula order with more; and  *)
(* the returned list keeps that shape.                                     *)
C9_SlotShapes ==
    (ProperFuncCall /\ group \in DOMAIN symmetry_func_dict) =>
        LET entries == symmetry_func_dict[group]
        IN  /\ Len(salcs_raw) = Len(entries)
            /\ \A k \in 1..Len(entries) :
                  SlotIsShaped(salcs_raw[k], entries[k], Vectors)
            /\ outcome = "ok" =>
                  /\ Len(salcs_func) = Len(entries)
                  /\ \A k \in 1..Len(entries) :
                        SameShape(salcs_func[k], salcs_raw[k])

C9_Witness ==
    /\ ProperFuncCall
    /\ group = d3h
    /\ ligands = Scenario4
    /\ outcome = "ok"
    /\ salcs_func[1].kind = "nested"
    /\ Len(salcs_func[3].rows) = 4
    /\ salcs_func[5].kind = "flat"
    /\ salcs_func[6] = NoSalc

(* C10: normalization never fails on what the evaluation step produces:    *)
(* with a valid group and mode calc_salcs_func returns a result, never a   *)
(* division by zero.                                                       *)
C10_NormalizeNeverFails ==
    (ProperFuncCall /\ group \in DOMAIN symmetry_func_dict) => outcome = "ok"

============================================================================
